---- MODULE Spec2Model ----
(***************************************************************************)
(* Model of yt-transcribe: the transcript acquisition fallback chain of    *)
(* transcribe.py (check_youtube_transcript, main), its timecode codec,     *)
(* VTT parser and serializers, and the plain-text extractor of             *)
(* summarize.py (parse_transcript_file).                                   *)
(*                                                                         *)
(* Text is modelled as sequences of one-character strings, so that the     *)
(* regular expressions, strip(), split() and the f-string formatting of    *)
(* the source are computed character by character.  Seconds offsets are    *)
(* modelled as integer milliseconds.                                       *)
(***************************************************************************)
EXTENDS Integers, Sequences, FiniteSets, TLC

VARIABLES
    pc,              \* position of the run / of the function under check
    tempDir,         \* files in the TemporaryDirectory: set of [name, content, writer]
    tempExists,      \* TRUE while the TemporaryDirectory exists on disk
    vtt_file,        \* main: result of check_youtube_transcript (a file record or None)
    segments,        \* main: the segment sequence
    segSource,       \* which path produced `segments`
    calls,           \* log of the external calls made so far, in order, with outcomes
    formats_to_save, \* main: set of dialects requested
    outputs,         \* output directory: dialect -> content written
    seconds,         \* codec: the offset handed to seconds_to_*_time (ms)
    dialect,         \* codec: "vtt" or "srt"
    time_str,        \* codec: the formatted string
    parsed,          \* codec: the result of time_to_seconds
    S,               \* round trip: the segment sequence serialized
    doc,             \* round trip: the document written by save_vtt
    S2,              \* round trip: the sequence parse_vtt reads back
    suffix,          \* extractor: file_path.suffix
    content,         \* extractor: file content
    result           \* extractor: what parse_transcript_file produced

orchVars  == <<tempDir, tempExists, vtt_file, segments, segSource, calls,
               formats_to_save, outputs>>
codecVars == <<seconds, dialect, time_str, parsed>>
rtVars    == <<S, doc, S2>>
exVars    == <<suffix, content, result>>
vars      == <<pc, orchVars, codecVars, rtVars, exVars>>

None == [none |-> TRUE]

-----------------------------------------------------------------------------
(* Characters and strings *)

DigitChars == <<"0", "1", "2", "3", "4", "5", "6", "7", "8", "9">>

IsDigit(c) == \E i \in 1..10 : DigitChars[i] = c

DigitVal(c) == (CHOOSE i \in 1..10 : DigitChars[i] = c) - 1

IsSpace(c) == c \in {" ", "\n", "\t"}

\* s has the literal p at position i (1-based)
HasAt(s, i, p) ==
    /\ i >= 1
    /\ i + Len(p) - 1 <= Len(s)
    /\ \A k \in 1..Len(p) : s[i + k - 1] = p[k]

\* str.strip(): drop leading and trailing whitespace
RECURSIVE LStrip(_)
LStrip(s) == IF s # <<>> /\ IsSpace(Head(s)) THEN LStrip(Tail(s)) ELSE s

RECURSIVE RStrip(_)
RStrip(s) ==
    IF s # <<>> /\ IsSpace(s[Len(s)]) THEN RStrip(SubSeq(s, 1, Len(s) - 1)) ELSE s

Strip(s) == RStrip(LStrip(s))

\* position of the first occurrence of character c at or after i, 0 if none
RECURSIVE FindChar(_, _, _)
FindChar(s, c, i) ==
    IF i > Len(s) THEN 0
    ELSE IF s[i] = c THEN i
    ELSE FindChar(s, c, i + 1)

\* str.split(sep) for a one-character separator
RECURSIVE SplitFrom(_, _, _)
SplitFrom(s, sep, i) ==
    LET j == FindChar(s, sep, i) IN
    IF j = 0 THEN << SubSeq(s, i, Len(s)) >>
    ELSE << SubSeq(s, i, j - 1) >> \o SplitFrom(s, sep, j + 1)

Split(s, sep) == SplitFrom(s, sep, 1)

\* sep.join(list)
RECURSIVE Join(_, _)
Join(list, sep) ==
    IF list = <<>> THEN <<>>
    ELSE IF Len(list) = 1 THEN list[1]
    ELSE list[1] \o sep \o Join(Tail(list), sep)

\* decimal digits of n >= 0
RECURSIVE DecStr(_)
DecStr(n) ==
    IF n < 10 THEN << DigitChars[n + 1] >>
    ELSE DecStr(n \div 10) \o << DigitChars[(n % 10) + 1] >>

\* f"{n:0wd}": decimal, left-padded with zeros to at least w characters
RECURSIVE ZeroPad(_, _)
ZeroPad(n, w) ==
    LET d == DecStr(n) IN
    IF Len(d) >= w THEN d ELSE [i \in 1..(w - Len(d)) |-> "0"] \o d

\* re.sub(r'<[^>]+>', '', s): a '<', one or more characters other than '>',
\* then '>'; scanned left to right, non-overlapping
RECURSIVE StripTagsFrom(_, _)
StripTagsFrom(s, i) ==
    IF i > Len(s) THEN <<>>
    ELSE LET j == FindChar(s, ">", i + 1) IN
         IF s[i] = "<" /\ j >= i + 2
         THEN StripTagsFrom(s, j + 1)
         ELSE << s[i] >> \o StripTagsFrom(s, i + 1)

StripTags(s) == StripTagsFrom(s, 1)

\* the regular expression \d{2}:\d{2}:\d{2} matches s at position i
MatchHMS(s, i) ==
    /\ i >= 1
    /\ i + 7 <= Len(s)
    /\ IsDigit(s[i]) /\ IsDigit(s[i + 1]) /\ s[i + 2] = ":"
    /\ IsDigit(s[i + 3]) /\ IsDigit(s[i + 4]) /\ s[i + 5] = ":"
    /\ IsDigit(s[i + 6]) /\ IsDigit(s[i + 7])

\* the regular expression \d{2}:\d{2}:\d{2}\.\d{3} matches s at position i
MatchTS(s, i) ==
    /\ MatchHMS(s, i)
    /\ i + 11 <= Len(s)
    /\ s[i + 8] = "."
    /\ IsDigit(s[i + 9]) /\ IsDigit(s[i + 10]) /\ IsDigit(s[i + 11])

\* re.search(r'\d{2}:\d{2}:\d{2}', s)
SearchHMS(s) == \E i \in 1..Len(s) : MatchHMS(s, i)

-----------------------------------------------------------------------------
(* Timecode codec.  A float number of seconds is modelled by its value in   *)
(* integer milliseconds.                                                   *)

\* Offsets (ms) for which the IEEE-754 double product (seconds % 1) * 1000 of
\* lines 169 and 261 falls just below the integer, so that int() yields one
\* millisecond less: 1.001 % 1 * 1000 = 0.99999999999989, 4.35 % 1 * 1000 =
\* 349.99999999999966, and so on.  Tabulated over FloatDomain.
TruncLoss == {1001, 4350, 61001, 3599999}

\* The offsets the model hands to the codec; TruncLoss is exact on this set.
FloatDomain ==
    {0, 1, 500, 999, 1000, 1001, 1500, 2000, 2500, 3000, 4000, 4349, 4350,
     59999, 60000, 61000, 61001, 3599998, 3599999, 3600000, 3661001, 360000250}

\* int((seconds % 1) * 1000)
FracMillis(ms) == IF ms \in TruncLoss THEN (ms % 1000) - 1 ELSE ms % 1000

\* the part shared by seconds_to_vtt_time and seconds_to_srt_time
FormatTime(ms, sep) ==
    LET hours   == ms \div 3600000
        minutes == (ms % 3600000) \div 60000
        secs    == (ms % 60000) \div 1000
        millis  == FracMillis(ms)
    IN  ZeroPad(hours, 2) \o <<":">> \o ZeroPad(minutes, 2) \o <<":">>
        \o ZeroPad(secs, 2) \o <<sep>> \o ZeroPad(millis, 3)

\* mutant: the subtitle separator in the caption-style formatter
seconds_to_vtt_time_comma(ms) == FormatTime(ms, ",")

seconds_to_vtt_time(ms) == FormatTime(ms, ".")

seconds_to_srt_time(ms) == FormatTime(ms, ",")

AllDigits(s) == \A i \in 1..Len(s) : IsDigit(s[i])

RECURSIVE DecVal(_)
DecVal(s) == IF s = <<>> THEN 0 ELSE DecVal(SubSeq(s, 1, Len(s) - 1)) * 10 + DigitVal(s[Len(s)])

ValueError == [ok |-> FALSE, err |-> "ValueError"]
IndexError == [ok |-> FALSE, err |-> "IndexError"]
TypeError  == [ok |-> FALSE, err |-> "TypeError"]
Ok(v) == [ok |-> TRUE, v |-> v]

\* float(p), in milliseconds: optional surrounding whitespace, digits, and an
\* optional '.' with fraction digits (the first three are kept: milliseconds);
\* anything else, a ',' included, is a ValueError
ParseFloat(p) ==
    LET t   == Strip(p)
        dot == FindChar(t, ".", 1)
        int == IF dot = 0 THEN t ELSE SubSeq(t, 1, dot - 1)
        fr  == IF dot = 0 THEN <<>> ELSE SubSeq(t, dot + 1, Len(t))
        fr3 == SubSeq(fr \o <<"0", "0", "0">>, 1, 3)
    IN  IF /\ AllDigits(int) /\ AllDigits(fr)
           /\ Len(int) + Len(fr) > 0
        THEN Ok(DecVal(int) * 1000 + DecVal(fr3))
        ELSE ValueError

\* time_to_seconds: split on ':', float() of the first three parts (each in
\* milliseconds here, so hours * 3600 is the hours' milliseconds)
time_to_seconds(str) ==
    LET parts == Split(str, ":") IN
    IF Len(parts) < 1 THEN IndexError
    ELSE LET hours == ParseFloat(parts[1]) IN
    IF ~hours.ok THEN hours
    ELSE IF Len(parts) < 2 THEN IndexError
    ELSE LET minutes == ParseFloat(parts[2]) IN
    IF ~minutes.ok THEN minutes
    ELSE IF Len(parts) < 3 THEN IndexError
    ELSE LET secs == ParseFloat(parts[3]) IN
    IF ~secs.ok THEN secs
    ELSE Ok(hours.v * 3600 + minutes.v * 60 + secs.v)

-----------------------------------------------------------------------------
(* Segments, the VTT parser and the serializers *)

Seg(st, en, tx) == [start |-> st, end |-> en, text |-> tx]

ARROW == <<" ", "-", "-", ">", " ">>

HEADER == <<"W", "E", "B", "V", "T", "T">>

NL == <<"\n">>

\* End of group 3 of the pattern of line 136.  (.*?) is lazy and the lookahead
\* (?=\n\n|\n\d{2}:|$) is tried at every position from the start of the text;
\* under re.MULTILINE '$' holds before every newline and at the end of the
\* string, and the two other alternatives begin with a newline too: the text
\* ends before the first newline at or after position i.
TextEnd(c, i) ==
    LET j == FindChar(c, "\n", i) IN IF j = 0 THEN Len(c) + 1 ELSE j

\* the pattern of line 136 matches c at position i
MatchCue(c, i) ==
    /\ MatchTS(c, i)
    /\ HasAt(c, i + 12, ARROW)
    /\ MatchTS(c, i + 17)
    /\ HasAt(c, i + 29, NL)

\* re.finditer and the loop of lines 139-150: leftmost matches, each search
\* resuming where the previous match ended
RECURSIVE ParseFrom(_, _)
ParseFrom(c, i) ==
    IF i > Len(c) THEN <<>>
    ELSE IF MatchCue(c, i)
    THEN LET j    == TextEnd(c, i + 30)
             text == StripTags(Strip(SubSeq(c, i + 30, j - 1)))
             rest == ParseFrom(c, j)
         IN  IF text # <<>>
             THEN << Seg(SubSeq(c, i, i + 11), SubSeq(c, i + 17, i + 28), text) >> \o rest
             ELSE rest
    ELSE ParseFrom(c, i + 1)

parse_vtt(c) == ParseFrom(c, 1)

RECURSIVE save_vtt_body(_)
save_vtt_body(segs) ==
    IF segs = <<>> THEN <<>>
    ELSE segs[1].start \o ARROW \o segs[1].end \o NL \o segs[1].text \o NL \o NL
         \o save_vtt_body(Tail(segs))

save_vtt(segs) == HEADER \o NL \o NL \o save_vtt_body(segs)

RECURSIVE save_txt(_)
save_txt(segs) ==
    IF segs = <<>> THEN <<>>
    ELSE segs[1].text \o NL \o save_txt(Tail(segs))

\* save_srt from segment number i on: [ok, v] where v is what has been written
\* when the loop ends or time_to_seconds raises
RECURSIVE save_srt_from(_, _)
save_srt_from(segs, i) ==
    IF i > Len(segs) THEN Ok(<<>>)
    ELSE LET start_sec == time_to_seconds(segs[i].start)
             end_sec   == time_to_seconds(segs[i].end)
         IN  IF ~start_sec.ok THEN [start_sec EXCEPT !.err = @] @@ [v |-> <<>>]
             ELSE IF ~end_sec.ok THEN [end_sec EXCEPT !.err = @] @@ [v |-> <<>>]
             ELSE LET rest == save_srt_from(segs, i + 1)
                      cue  == DecStr(i) \o NL
                              \o seconds_to_srt_time(start_sec.v) \o ARROW
                              \o seconds_to_srt_time(end_sec.v) \o NL
                              \o segs[i].text \o NL \o NL
                  IN  [rest EXCEPT !.v = cue \o @]

save_srt(segs) == save_srt_from(segs, 1)

\* json.dump(segments): the document is kept as the list of records it encodes
save_json(segs) == [json |-> segs]

-----------------------------------------------------------------------------
(* The acquisition run: main() from the entry into the TemporaryDirectory   *)
(* block to its exit, with check_youtube_transcript, download_audio and     *)
(* transcribe_audio.  The external downloader, the transcription engine and *)
(* the file system are the environment: their exit status, the files they   *)
(* write and their failures are chosen freely.                              *)

MaxSegs == 2

MinContentLen == 10

T_hi    == <<"h", "i">>
T_yo    == <<"y", "o">>
T_tag   == <<"<", "c", ">">>
T_pad   == <<" ", "o", "k">>
T_blank == <<" ">>

Cue(st, en, tx) == st \o ARROW \o en \o NL \o tx \o NL \o NL

TS_1000 == <<"0", "0", ":", "0", "0", ":", "0", "1", ".", "0", "0", "0">>
TS_2500 == <<"0", "0", ":", "0", "0", ":", "0", "2", ".", "5", "0", "0">>

\* Caption documents the downloader may write
DocHeaderOnly == HEADER
DocOneCue     == HEADER \o NL \o NL \o Cue(TS_1000, TS_2500, T_hi)
DocNoStamp    == HEADER \o NL \o NL \o T_hi \o T_pad
DocShortStamp == <<"0", "0", ":", "0", "0", ":", "0", "1">>
DocTagOnly    == HEADER \o NL \o NL \o Cue(TS_1000, TS_2500, T_tag)

CaptionDocs == {DocHeaderOnly, DocNoStamp, DocShortStamp, DocOneCue, DocTagOnly}

\* File names the downloader derives from the prefix "transcript"
VttNames == {"transcript.en.vtt", "transcript.en-orig.vtt"}

\* What one caption fetch leaves in the directory: nothing or one document
CaptionWrites == {None} \cup [name : VttNames, content : CaptionDocs]

ExitCodes == {0, 1}

\* Segments the transcription engine may return (start and end in ms)
WhisperSegs ==
    { [start |-> 1001,    end |-> 4350,      text |-> T_pad],
      [start |-> 3599999, end |-> 360000250, text |-> T_blank] }

RECURSIVE SeqsUpTo(_, _)
SeqsUpTo(set, n) ==
    IF n = 0 THEN {<<>>}
    ELSE LET shorter == SeqsUpTo(set, n - 1) IN
         shorter \cup {Append(q, x) : q \in {r \in shorter : Len(r) = n - 1}, x \in set}

WhisperResults == SeqsUpTo(WhisperSegs, MaxSegs)

Dialects == {"vtt", "txt", "srt", "json"}

\* the file system after the downloader `writer` has written w: a file of the
\* same name is replaced
WriteFile(dir, w, writer) ==
    IF w = None THEN dir
    ELSE {f \in dir : f.name # w.name}
         \cup {[name |-> w.name, content |-> w.content, writer |-> writer]}

\* temp_dir.glob("*.vtt")
VttFiles(dir) == {f \in dir : f.name \in VttNames}

\* mutant: the timestamp test dropped from the validation
Valid_LengthOnly(c) == Len(Strip(c)) > MinContentLen

\* the test of lines 96-98 and 120-121
Valid(c) ==
    LET stripped == Strip(c) IN Len(stripped) > MinContentLen /\ SearchHMS(stripped)

\* lines 89-100 and 114-123, after run_command has returned exit_code and the
\* directory is dir: the files one attempt may return; glob order is the file
\* system's, so vtt_files[0] is any of the files.  {} when the attempt falls
\* through.
Accepted(exit_code, dir) ==
    IF exit_code = 0 THEN {f \in VttFiles(dir) : Valid(f.content)} ELSE {}

\* mutant: the attempt falls through even after a valid file (no return)
Rejected_Always(exit_code, dir) == TRUE

Rejected(exit_code, dir) ==
    \/ exit_code # 0
    \/ VttFiles(dir) = {}
    \/ \E f \in VttFiles(dir) : ~Valid(f.content)

\* mutant: the directory is removed only at the end of a successful run
WithExit_NoCleanup(final) ==
    /\ pc' = final
    /\ IF final = "Done"
       THEN tempDir' = {} /\ tempExists' = FALSE
       ELSE UNCHANGED <<tempDir, tempExists>>

\* leaving the `with tempfile.TemporaryDirectory()` block of line 312, normally,
\* by SystemExit or by an exception: the directory and its files are removed
WithExit(final) ==
    /\ pc' = final
    /\ tempDir' = {}
    /\ tempExists' = FALSE

Log(call, exit_code, wrote) == [call |-> call, exit_code |-> exit_code, wrote |-> wrote]

\* lines 297-313: the requested formats, from args.format and args.txt
FormatsToSave(format, txt) ==
    LET base == IF format # {}
                THEN IF "all" \in format THEN {"vtt", "txt", "srt", "json"}
                     ELSE format \cup {"vtt"}
                ELSE {"vtt"}
    IN  IF txt THEN base \cup {"txt"} ELSE base

main_start ==
    /\ pc = "main"
    /\ \E format \in SUBSET {"txt", "srt", "json", "all"}, txt \in BOOLEAN :
          formats_to_save' = FormatsToSave(format, txt)
    /\ tempExists' = TRUE
    /\ tempDir' = {}
    /\ pc' = "TryRestrictedCaptions"
    /\ UNCHANGED <<vtt_file, segments, segSource, calls, outputs>>
    /\ UNCHANGED <<codecVars, rtVars, exVars>>

\* one caption attempt of check_youtube_transcript: run the downloader, then
\* either return a file to main (line 316) or fall through to `next`
Attempt(call, next) ==
    \E exit_code \in ExitCodes, w \in CaptionWrites :
        LET dir == WriteFile(tempDir, w, call) IN
        /\ calls' = Append(calls, Log(call, exit_code, w))
        /\ tempDir' = dir
        /\ \/ \E f \in Accepted(exit_code, dir) :
                 /\ vtt_file' = f
                 /\ pc' = "Parse"
           \/ /\ Rejected(exit_code, dir)
              /\ vtt_file' = None
              /\ pc' = next
        /\ UNCHANGED <<tempExists, segments, segSource, formats_to_save, outputs>>
        /\ UNCHANGED <<codecVars, rtVars, exVars>>

\* lines 77-100
TryRestrictedCaptions ==
    /\ pc = "TryRestrictedCaptions"
    /\ Attempt("restricted", "TryUnrestrictedCaptions")

\* mutant: a rejected unrestricted attempt is tried again
TryUnrestricted_Retry ==
    /\ pc = "TryUnrestrictedCaptions"
    /\ Attempt("unrestricted", "TryUnrestrictedCaptions")

\* lines 102-126; returning None sends main to line 330
TryUnrestrictedCaptions ==
    /\ pc = "TryUnrestrictedCaptions"
    /\ Attempt("unrestricted", "Transcribe")

\* mutant: an empty parse result is kept (no fallback to transcription)
Parse_NoFallback ==
    /\ pc = "Parse"
    /\ segments' = parse_vtt(vtt_file.content)
    /\ segSource' = "captions"
    /\ pc' = "save_vtt"
    /\ UNCHANGED <<tempDir, tempExists, vtt_file, calls, formats_to_save, outputs>>
    /\ UNCHANGED <<codecVars, rtVars, exVars>>

\* lines 318-327
Parse ==
    /\ pc = "Parse"
    /\ LET segs == parse_vtt(vtt_file.content) IN
       IF Len(segs) = 0
       THEN /\ pc' = "Transcribe"
            /\ UNCHANGED <<segments, segSource>>
       ELSE /\ segments' = segs
            /\ segSource' = "captions"
            /\ pc' = "save_vtt"
    /\ UNCHANGED <<tempDir, tempExists, vtt_file, calls, formats_to_save, outputs>>
    /\ UNCHANGED <<codecVars, rtVars, exVars>>

AudioFile == [name |-> "audio.wav", content |-> <<>>, writer |-> "audio"]

\* download_audio (lines 206-229), called from line 323 or 330: a non-zero exit
\* status ends the run by sys.exit(1)
download_audio ==
    /\ pc = "Transcribe"
    /\ \E exit_code \in ExitCodes :
          /\ calls' = Append(calls, Log("audio", exit_code, None))
          /\ IF exit_code # 0
             THEN WithExit("AudioFailed")
             ELSE /\ pc' = "transcribe_audio"
                  /\ tempDir' = tempDir \cup {AudioFile}
                  /\ UNCHANGED tempExists
    /\ UNCHANGED <<vtt_file, segments, segSource, formats_to_save, outputs>>
    /\ UNCHANGED <<codecVars, rtVars, exVars>>

\* lines 245-251: the engine's segments, timestamps formatted, text stripped
RECURSIVE WhisperToSegments(_)
WhisperToSegments(res) ==
    IF res = <<>> THEN <<>>
    ELSE << Seg(seconds_to_vtt_time(res[1].start),
                seconds_to_vtt_time(res[1].end),
                Strip(res[1].text)) >>
         \o WhisperToSegments(Tail(res))

\* transcribe_audio (lines 232-253): the import may fail (sys.exit), the engine
\* may raise, or it returns its segments
transcribe_audio ==
    /\ pc = "transcribe_audio"
    /\ \E outcome \in {"ImportError", "raise", "ok"} :
          IF outcome = "ImportError"
          THEN /\ WithExit("TranscribeFailed")
               /\ UNCHANGED <<calls, segments, segSource>>
          ELSE IF outcome = "raise"
          THEN /\ calls' = Append(calls, Log("transcribe", 1, None))
               /\ WithExit("TranscribeFailed")
               /\ UNCHANGED <<segments, segSource>>
          ELSE \E res \in WhisperResults :
               /\ calls' = Append(calls, Log("transcribe", 0, None))
               /\ segments' = WhisperToSegments(res)
               /\ segSource' = "whisper"
               /\ pc' = "save_vtt"
               /\ UNCHANGED <<tempDir, tempExists>>
    /\ UNCHANGED <<vtt_file, formats_to_save, outputs>>
    /\ UNCHANGED <<codecVars, rtVars, exVars>>

\* what open(output_file, 'w') and the writes may do
IOOutcomes == {"ok", "open_fails", "write_fails"}

File(c, complete) == [content |-> c, complete |-> complete]

\* one `if "<d>" in formats_to_save: save_<d>(...)` of lines 349-363; written is
\* the serializer's [ok, v].  An exception leaves the with block; a file that
\* was opened stays in the output directory.
SaveStep(d, written, next) ==
    /\ IF d \notin formats_to_save
       THEN /\ UNCHANGED outputs
            /\ IF next = "Done" THEN WithExit("Done")
               ELSE pc' = next /\ UNCHANGED <<tempDir, tempExists>>
       ELSE \E io \in IOOutcomes :
            IF io = "open_fails"
            THEN /\ UNCHANGED outputs
                 /\ WithExit("SaveFailed")
            ELSE IF io = "write_fails" \/ ~written.ok
            THEN /\ outputs' = [outputs EXCEPT ![d] = File(<<>>, FALSE)]
                 /\ WithExit("SaveFailed")
            ELSE /\ outputs' = [outputs EXCEPT ![d] = File(written.v, TRUE)]
                 /\ IF next = "Done" THEN WithExit("Done")
                    ELSE pc' = next /\ UNCHANGED <<tempDir, tempExists>>
    /\ UNCHANGED <<vtt_file, segments, segSource, calls, formats_to_save>>
    /\ UNCHANGED <<codecVars, rtVars, exVars>>

\* lines 349-351
main_save_vtt == pc = "save_vtt" /\ SaveStep("vtt", Ok(save_vtt(segments)), "save_txt")

\* lines 353-355
main_save_txt == pc = "save_txt" /\ SaveStep("txt", Ok(save_txt(segments)), "save_srt")

\* lines 357-359
main_save_srt == pc = "save_srt" /\ SaveStep("srt", save_srt(segments), "save_json")

\* lines 361-365
main_save_json == pc = "save_json" /\ SaveStep("json", Ok(save_json(segments)), "Done")

Terminal == {"Done", "AudioFailed", "TranscribeFailed", "SaveFailed"}

\* the variables of the parts a specification does not exercise
IdleCodec == seconds = 0 /\ dialect = "vtt" /\ time_str = <<>> /\ parsed = None
IdleRT    == S = <<>> /\ doc = <<>> /\ S2 = <<>>
IdleEx    == suffix = "" /\ content = <<>> /\ result = None

Init ==
    /\ pc = "main"
    /\ tempDir = {}
    /\ tempExists = FALSE
    /\ vtt_file = None
    /\ segments = <<>>
    /\ segSource = "none"
    /\ calls = <<>>
    /\ formats_to_save = {}
    /\ outputs = [d \in Dialects |-> None]
    /\ IdleCodec
    /\ IdleRT
    /\ IdleEx

Next ==
    \/ main_start
    \/ TryRestrictedCaptions
    \/ TryUnrestrictedCaptions
    \/ Parse
    \/ download_audio
    \/ transcribe_audio
    \/ main_save_vtt
    \/ main_save_txt
    \/ main_save_srt
    \/ main_save_json

Spec == Init /\ [][Next]_vars

-----------------------------------------------------------------------------
(* Properties of the acquisition run *)

SavePcs == {"save_vtt", "save_txt", "save_srt", "save_json"}

\* a document "passes validation": its stripped length is above the threshold
\* and it contains an HH:MM:SS pattern
PassesValidation(c) ==
    /\ Len(Strip(c)) > 10
    /\ \E i \in 1..Len(c) : MatchHMS(c, i)

\* the two tests above and parse_vtt, tabulated over the documents of the model
Passes == [c \in CaptionDocs |-> PassesValidation(c)]

SegmentsOf == [c \in CaptionDocs |-> parse_vtt(c)]

Wrote(i) == calls[i].wrote # None

\* the restricted fetch exited with status 0 and wrote a document
RestrictedWroteOnExit0 ==
    /\ Len(calls) >= 1
    /\ calls[1].call = "restricted"
    /\ calls[1].exit_code = 0
    /\ Wrote(1)

RestrictedSucceeded ==
    /\ RestrictedWroteOnExit0
    /\ Passes[calls[1].wrote.content]

RestrictedDoc == calls[1].wrote.content

\* the orchestrator's Done state: the acquisition has ended with a segment
\* sequence (main is past line 332, at or after the output-writing steps)
AcquisitionDone == pc \in SavePcs \cup {"Done", "SaveFailed"}

\* C1 as stated: whenever the restricted fetch exits 0 and writes a document
\* that passes validation, no other external call is ever made and the
\* acquisition ends in Done with that document's segments.
C1_AsStated ==
    RestrictedSucceeded =>
        /\ Len(calls) = 1
        /\ pc # "Parse" =>
              /\ AcquisitionDone
              /\ segSource = "captions"
              /\ segments = SegmentsOf[RestrictedDoc]

\* C1, amended: whenever the restricted fetch exits 0 and writes a document that
\* passes validation and from which parse_vtt reads at least one segment, no
\* other external call is ever made and the acquisition ends in Done with that
\* document's segments.
C1_RestrictedCaptionsUsed ==
    (RestrictedSucceeded /\ SegmentsOf[RestrictedDoc] # <<>>) =>
        /\ Len(calls) = 1
        /\ pc # "Parse" =>
              /\ AcquisitionDone
              /\ segSource = "captions"
              /\ segments = SegmentsOf[RestrictedDoc]

C1_Witness ==
    /\ pc = "Done"
    /\ RestrictedSucceeded
    /\ Len(calls) = 1
    /\ segments = SegmentsOf[RestrictedDoc]
    /\ segments = << Seg(TS_1000, TS_2500, T_hi) >>

\* C2: when the restricted fetch exits 0 with a document that fails validation,
\* the run neither finishes on that document nor goes to transcription: it is
\* at TryUnrestrictedCaptions, and the second external call, once made, is the
\* unrestricted fetch.
C2_InvalidDocGoesToUnrestricted ==
    (RestrictedWroteOnExit0 /\ ~Passes[RestrictedDoc]) =>
        /\ Len(calls) = 1 => pc = "TryUnrestrictedCaptions"
        /\ Len(calls) >= 2 => calls[2].call = "unrestricted"

C2_Witness ==
    /\ RestrictedWroteOnExit0
    /\ RestrictedDoc = DocHeaderOnly
    /\ Len(calls) = 2
    /\ calls[2].call = "unrestricted"

\* a timed-text-markup timestamp: two or more hour digits, then :MM:SS.mmm
IsVttTime(s) ==
    /\ Len(s) >= 12
    /\ \A i \in 1..(Len(s) - 10) : IsDigit(s[i])
    /\ LET t == SubSeq(s, Len(s) - 9, Len(s)) IN
       /\ t[1] = ":" /\ IsDigit(t[2]) /\ IsDigit(t[3])
       /\ t[4] = ":" /\ IsDigit(t[5]) /\ IsDigit(t[6])
       /\ t[7] = "." /\ IsDigit(t[8]) /\ IsDigit(t[9]) /\ IsDigit(t[10])

BothCaptionAttemptsFailed ==
    /\ Len(calls) >= 2
    /\ calls[2].call = "unrestricted"
    /\ vtt_file = None
    /\ pc # "TryUnrestrictedCaptions"

\* C3: when both caption attempts fail the next external call is the audio
\* fetch; the transcription engine is only ever called directly after an audio
\* fetch that exited 0; and from the moment the engine's segments are stored,
\* so before any serializer runs, every start and end is a timed-text-markup
\* timestamp string.
C3_TranscribePath ==
    /\ BothCaptionAttemptsFailed =>
          /\ Len(calls) = 2 => pc = "Transcribe"
          /\ Len(calls) >= 3 => calls[3].call = "audio"
    /\ \A i \in 1..Len(calls) :
          calls[i].call = "transcribe" =>
              i > 1 /\ calls[i - 1].call = "audio" /\ calls[i - 1].exit_code = 0
    /\ segSource = "whisper" =>
          \A i \in 1..Len(segments) :
              IsVttTime(segments[i].start) /\ IsVttTime(segments[i].end)

C3_Witness ==
    /\ BothCaptionAttemptsFailed
    /\ pc = "save_vtt"
    /\ segSource = "whisper"
    /\ Len(calls) = 4
    /\ Len(segments) = 2

\* C4: a caption document that passed validation but from which parse_vtt reads
\* no segment sends the run to Transcribe (audio fetch, then transcription); no
\* run reaches the output-writing step with an empty segment sequence obtained
\* from provider captions.
C4_EmptyAfterParse ==
    /\ (vtt_file # None /\ pc # "Parse" /\ SegmentsOf[vtt_file.content] = <<>>) =>
          \/ pc = "Transcribe"
          \/ \E i \in 1..Len(calls) : calls[i].call = "audio"
    /\ segSource = "captions" => segments # <<>>
    /\ (AcquisitionDone /\ segments = <<>>) => segSource = "whisper"

C4_Witness ==
    /\ vtt_file # None
    /\ SegmentsOf[vtt_file.content] = <<>>
    /\ pc = "transcribe_audio"
    /\ calls[Len(calls)].call = "audio"

Rank(call) ==
    CASE call = "restricted"   -> 1
      [] call = "unrestricted" -> 2
      [] call = "audio"        -> 3
      [] call = "transcribe"   -> 4

Count(call) == Cardinality({i \in 1..Len(calls) : calls[i].call = call})

\* C5: the external calls of a run are made in the order restricted,
\* unrestricted, audio, transcription, each at most once (the log is strictly
\* increasing in that order); a state's call has not been made when the state is
\* entered and has been made exactly once when it is left.
C5_NoRetries ==
    /\ \A i, j \in 1..Len(calls) : i < j => Rank(calls[i].call) < Rank(calls[j].call)
    /\ pc = "TryRestrictedCaptions" => calls = <<>>
    /\ pc \notin {"main", "TryRestrictedCaptions"} => Count("restricted") = 1
    /\ pc = "TryUnrestrictedCaptions" => Count("unrestricted") = 0
    /\ pc = "Transcribe" => Count("audio") = 0
    /\ pc \in {"transcribe_audio", "AudioFailed"} =>
          Count("audio") = 1 /\ Count("transcribe") = 0
    /\ segSource = "whisper" => Count("audio") = 1 /\ Count("transcribe") = 1

C5_Witness ==
    /\ pc = "Done"
    /\ Len(calls) = 4
    /\ calls[1].exit_code = 1
    /\ calls[2].exit_code = 0

\* C6: when a run has ended, by success, by sys.exit after a failed audio fetch,
\* or by an exception of the transcription or of a save step, its temporary
\* directory and the files in it are gone.
C6_TempDirDiscarded ==
    pc \in Terminal => ~tempExists /\ tempDir = {}

C6_Witness ==
    /\ pc = "TranscribeFailed"
    /\ Wrote(1)
    /\ calls[Len(calls)].call = "transcribe"
    /\ ~tempExists

Written == {d \in Dialects : outputs[d] # None}

\* C7: at the end of every run the set of output files written is empty or is
\* the full set of requested dialects.
C7_AllOrNothing ==
    pc \in Terminal => Written = {} \/ Written = formats_to_save

\* C11: every segment of the sequence handed to the serializers has non-empty
\* text, whichever acquisition path produced it: a segment read from captions
\* has text that is not empty after trimming and markup stripping, a segment
\* from the transcription has text that is not empty after trimming.
C11_NonEmptyText ==
    AcquisitionDone =>
        \A i \in 1..Len(segments) :
            /\ segSource = "captions" => Strip(StripTags(segments[i].text)) # <<>>
            /\ segSource = "whisper" => Strip(segments[i].text) # <<>>

\* the unrestricted attempt has returned a file to main
UnrestrictedAccepted ==
    /\ Len(calls) >= 2
    /\ calls[2].call = "unrestricted"
    /\ calls[2].exit_code = 0
    /\ vtt_file # None

\* C12: a caption document accepted in the TryUnrestrictedCaptions step is one
\* written by the unrestricted fetch itself, never a .vtt file left in the
\* temporary directory by the earlier restricted attempt.
C12_AcceptedIsOwnDocument ==
    UnrestrictedAccepted =>
        /\ vtt_file.writer = "unrestricted"
        /\ Wrote(2)
        /\ vtt_file.name = calls[2].wrote.name
        /\ vtt_file.content = calls[2].wrote.content

IdleOrch ==
    /\ tempDir = {}
    /\ tempExists = FALSE
    /\ vtt_file = None
    /\ segments = <<>>
    /\ segSource = "none"
    /\ calls = <<>>
    /\ formats_to_save = {}
    /\ outputs = [d \in Dialects |-> None]

-----------------------------------------------------------------------------
(* The timecode codec on its own: format an offset, parse the string back *)

InitCodec ==
    /\ pc = "format"
    /\ seconds \in FloatDomain
    /\ dialect \in {"vtt", "srt"}
    /\ time_str = <<>>
    /\ parsed = None
    /\ IdleOrch
    /\ IdleRT
    /\ IdleEx

Format ==
    /\ pc = "format"
    /\ time_str' = IF dialect = "vtt" THEN seconds_to_vtt_time(seconds)
                   ELSE seconds_to_srt_time(seconds)
    /\ pc' = "parse"
    /\ UNCHANGED <<seconds, dialect, parsed>>
    /\ UNCHANGED <<orchVars, rtVars, exVars>>

ParseTime ==
    /\ pc = "parse"
    /\ parsed' = time_to_seconds(time_str)
    /\ pc' = "parsed"
    /\ UNCHANGED <<seconds, dialect, time_str>>
    /\ UNCHANGED <<orchVars, rtVars, exVars>>

NextCodec == Format \/ ParseTime

SpecCodec == InitCodec /\ [][NextCodec]_vars

\* C8: for every offset s >= 0 at millisecond granularity and both dialects,
\* parsing the formatted string yields s again
C8_CodecRoundTrip ==
    pc = "parsed" => parsed.ok /\ parsed.v = seconds

-----------------------------------------------------------------------------
(* save_vtt followed by parse_vtt *)

MaxRTSegs == 2

TS_100h == <<"1", "0", "0", ":", "0", "0", ":", "0", "0", ".", "2", "5", "0">>

RTTimes == { <<TS_1000, TS_2500>>, <<TS_2500, TS_2500>>, <<TS_2500, TS_100h>> }

\* texts as the segment model holds them: trimmed, markup already stripped;
\* one of them has two display lines
RTTexts == { T_hi, T_yo, T_hi \o <<" ">> \o T_yo, T_hi \o NL \o T_yo }

RTSegs == { Seg(t[1], t[2], x) : t \in RTTimes, x \in RTTexts }

InitRT ==
    /\ pc = "serialize"
    /\ S \in SeqsUpTo(RTSegs, MaxRTSegs)
    /\ doc = <<>>
    /\ S2 = <<>>
    /\ IdleOrch
    /\ IdleCodec
    /\ IdleEx

Serialize ==
    /\ pc = "serialize"
    /\ doc' = save_vtt(S)
    /\ pc' = "parse"
    /\ UNCHANGED <<S, S2>>
    /\ UNCHANGED <<orchVars, codecVars, exVars>>

ParseBack ==
    /\ pc = "parse"
    /\ S2' = parse_vtt(doc)
    /\ pc' = "parsed"
    /\ UNCHANGED <<S, doc>>
    /\ UNCHANGED <<orchVars, codecVars, exVars>>

NextRT == Serialize \/ ParseBack

SpecRT == InitRT /\ [][NextRT]_vars

Abs(n) == IF n < 0 THEN -n ELSE n

\* two timestamp strings denote offsets within one millisecond of each other
Within1ms(a, b) ==
    LET x == time_to_seconds(a)
        y == time_to_seconds(b)
    IN  x.ok /\ y.ok /\ Abs(x.v - y.v) <= 1

\* the claim's condition on S: end >= start and non-empty text in every segment
WellFormed(q) ==
    \A i \in 1..Len(q) :
        /\ q[i].text # <<>>
        /\ time_to_seconds(q[i].start).ok
        /\ time_to_seconds(q[i].end).ok
        /\ time_to_seconds(q[i].end).v >= time_to_seconds(q[i].start).v

\* C9: for every well-formed S, save_vtt followed by parse_vtt yields as many
\* segments, with the same texts in order and start/end within 1 ms
C9_VttRoundTrip ==
    (pc = "parsed" /\ WellFormed(S)) =>
        /\ Len(S2) = Len(S)
        /\ \A i \in 1..Len(S) :
              /\ S2[i].text = S[i].text
              /\ Within1ms(S2[i].start, S[i].start)
              /\ Within1ms(S2[i].end, S[i].end)

-----------------------------------------------------------------------------
(* parse_transcript_file of summarize.py *)

JSONDecodeError == [ok |-> FALSE, err |-> "JSONDecodeError"]

JStr(x)  == [t |-> "str", s |-> x]
JInt(n)  == [t |-> "int", n |-> n]
JNull    == [t |-> "null"]
JList(q) == [t |-> "list", items |-> q]
JDict(ks, vs) == [t |-> "dict", keys |-> ks, vals |-> vs]

JFail == [ok |-> FALSE]
JOk(v, next) == [ok |-> TRUE, v |-> v, next |-> next]

\* end of the run of digits starting at i
RECURSIVE DigitsEnd(_, _)
DigitsEnd(s, i) == IF i <= Len(s) /\ IsDigit(s[i]) THEN DigitsEnd(s, i + 1) ELSE i

\* json.loads on the subset of JSON the model's documents use: lists, objects,
\* strings without escapes, non-negative integers and null, without inner
\* whitespace; anything else does not decode
RECURSIVE JValue(_, _)
RECURSIVE JItems(_, _, _)
RECURSIVE JMembers(_, _, _, _)
JValue(s, i) ==
    IF i > Len(s) THEN JFail
    ELSE IF s[i] = "\""
    THEN LET j == FindChar(s, "\"", i + 1) IN
         IF j = 0 THEN JFail ELSE JOk(JStr(SubSeq(s, i + 1, j - 1)), j + 1)
    ELSE IF IsDigit(s[i])
    THEN LET k == DigitsEnd(s, i) IN JOk(JInt(DecVal(SubSeq(s, i, k - 1))), k)
    ELSE IF HasAt(s, i, <<"n", "u", "l", "l">>) THEN JOk(JNull, i + 4)
    ELSE IF s[i] = "["
    THEN IF HasAt(s, i + 1, <<"]">>) THEN JOk(JList(<<>>), i + 2)
         ELSE JItems(s, i + 1, <<>>)
    ELSE IF s[i] = "{"
    THEN IF HasAt(s, i + 1, <<"}">>) THEN JOk(JDict(<<>>, <<>>), i + 2)
         ELSE JMembers(s, i + 1, <<>>, <<>>)
    ELSE JFail

JItems(s, i, acc) ==
    LET r == JValue(s, i) IN
    IF ~r.ok THEN JFail
    ELSE IF HasAt(s, r.next, <<",">>) THEN JItems(s, r.next + 1, Append(acc, r.v))
    ELSE IF HasAt(s, r.next, <<"]">>) THEN JOk(JList(Append(acc, r.v)), r.next + 1)
    ELSE JFail

JMembers(s, i, ks, vs) ==
    LET k == JValue(s, i) IN
    IF ~k.ok \/ k.v.t # "str" \/ ~HasAt(s, k.next, <<":">>) THEN JFail
    ELSE LET r == JValue(s, k.next + 1) IN
    IF ~r.ok THEN JFail
    ELSE IF HasAt(s, r.next, <<",">>)
    THEN JMembers(s, r.next + 1, Append(ks, k.v.s), Append(vs, r.v))
    ELSE IF HasAt(s, r.next, <<"}">>)
    THEN JOk(JDict(Append(ks, k.v.s), Append(vs, r.v)), r.next + 1)
    ELSE JFail

json_loads(c) ==
    LET t == Strip(c)
        r == JValue(t, 1)
    IN  IF r.ok /\ r.next = Len(t) + 1 THEN Ok(r.v) ELSE JSONDecodeError

\* dict.get(key, default): the last member of that name
DictGet(d, key, default) ==
    LET at == {i \in 1..Len(d.keys) : d.keys[i] = key} IN
    IF at = {} THEN default
    ELSE d.vals[CHOOSE i \in at : \A j \in at : j <= i]

\* repr() and str() of a decoded value
RECURSIVE PyRepr(_)
RECURSIVE PyReprItems(_)
RECURSIVE PyReprMembers(_, _)
PyRepr(v) ==
    CASE v.t = "str"  -> <<"'">> \o v.s \o <<"'">>
      [] v.t = "int"  -> DecStr(v.n)
      [] v.t = "null" -> <<"N", "o", "n", "e">>
      [] v.t = "list" -> <<"[">> \o PyReprItems(v.items) \o <<"]">>
      [] v.t = "dict" -> <<"{">> \o PyReprMembers(v.keys, v.vals) \o <<"}">>

PyReprItems(q) ==
    IF q = <<>> THEN <<>>
    ELSE IF Len(q) = 1 THEN PyRepr(q[1])
    ELSE PyRepr(q[1]) \o <<",", " ">> \o PyReprItems(Tail(q))

PyReprMembers(ks, vs) ==
    IF ks = <<>> THEN <<>>
    ELSE LET m == <<"'">> \o ks[1] \o <<"'", ":", " ">> \o PyRepr(vs[1]) IN
         IF Len(ks) = 1 THEN m
         ELSE m \o <<",", " ">> \o PyReprMembers(Tail(ks), Tail(vs))

PyStr(v) == IF v.t = "str" THEN v.s ELSE PyRepr(v)

\* lines 51-52 and 68-69: content.split('\n'), each line stripped
StrippedLines(c) == LET ls == Split(c, "\n") IN [i \in 1..Len(ls) |-> Strip(ls[i])]

Contains(s, p) == \E i \in 1..Len(s) : HasAt(s, i, p)

\* the condition of lines 54-58
KeepVtt(line) ==
    /\ line # <<>>
    /\ ~HasAt(line, 1, HEADER)
    /\ ~MatchHMS(line, 1)
    /\ ~Contains(line, <<"-", "-", ">">>)
    /\ ~AllDigits(line)

\* the condition of lines 71-74
KeepSrt(line) ==
    /\ line # <<>>
    /\ ~AllDigits(line)
    /\ ~MatchHMS(line, 1)
    /\ ~Contains(line, <<"-", "-", ">">>)

\* the loop of lines 51-62: kept lines, markup removed, empty results dropped
RECURSIVE SelectVtt(_)
SelectVtt(ls) ==
    IF ls = <<>> THEN <<>>
    ELSE LET line == StripTags(ls[1])
             rest == SelectVtt(Tail(ls))
         IN  IF KeepVtt(ls[1]) /\ line # <<>> THEN << line >> \o rest ELSE rest

\* the loop of lines 68-76
RECURSIVE SelectSrt(_)
SelectSrt(ls) ==
    IF ls = <<>> THEN <<>>
    ELSE LET rest == SelectSrt(Tail(ls)) IN
         IF KeepSrt(ls[1]) THEN << ls[1] >> \o rest ELSE rest

\* line 85: the text of every dict of the list
RECURSIVE Texts(_)
Texts(items) ==
    IF items = <<>> THEN <<>>
    ELSE IF items[1].t = "dict"
    THEN << DictGet(items[1], <<"t", "e", "x", "t">>, JStr(<<>>)) >> \o Texts(Tail(items))
    ELSE Texts(Tail(items))

\* line 86: '\n'.join(texts) raises TypeError on an item that is not a str
JoinTexts(ts) ==
    IF \E i \in 1..Len(ts) : ts[i].t # "str" THEN TypeError
    ELSE Ok(Join([i \in 1..Len(ts) |-> ts[i].s], NL))

parse_transcript_file(sfx, c) ==
    IF sfx = ".txt" THEN Ok(Strip(c))
    ELSE IF sfx = ".vtt"
    THEN Ok(Join(SelectVtt(StrippedLines(c)), NL))
    ELSE IF sfx = ".srt"
    THEN Ok(Join(SelectSrt(StrippedLines(c)), NL))
    ELSE IF sfx = ".json"
    THEN LET data == json_loads(c) IN
         IF ~data.ok THEN Ok(c)
         ELSE IF data.v.t = "list" THEN JoinTexts(Texts(data.v.items))
         ELSE Ok(PyStr(data.v))
    ELSE Ok(Strip(c))

J_TextList ==
    <<"[", "{", "\"", "t", "e", "x", "t", "\"", ":", "\"", "a", "\"", "}",
      ",", "{", "\"", "t", "e", "x", "t", "\"", ":", "\"", "b", "\"", "}",
      "]">>

J_IntText ==
    <<"[", "{", "\"", "t", "e", "x", "t", "\"", ":", "1", "}", "]">>

J_NullText ==
    <<"[", "{", "\"", "t", "e", "x", "t", "\"", ":", "\"", "a", "\"", "}",
      ",", "{", "\"", "t", "e", "x", "t", "\"", ":", "n", "u", "l", "l",
      "}", "]">>

J_NoText ==
    <<"[", "{", "\"", "x", "\"", ":", "\"", "a", "\"", "}", "]">>

J_NotObjects ==
    <<"[", "1", ",", "\"", "a", "\"", ",", "n", "u", "l", "l", "]">>

J_Empty ==
    <<"[", "]">>

J_Object ==
    <<"{", "\"", "t", "e", "x", "t", "\"", ":", "\"", "a", "\"", "}">>

J_Number ==
    <<"1", "2">>

J_Broken ==
    <<"[", "{", "\"", "t", "e", "x", "t", "\"", ":">>

X_Plain ==
    <<" ", "h", "i", "\n", "y", "o", "\n">>

X_Srt ==
    <<"1", "\n", "0", "0", ":", "0", "0", ":", "0", "1", ",", "0", "0",
      "0", " ", "-", "-", ">", " ", "0", "0", ":", "0", "0", ":", "0", "2",
      ",", "5", "0", "0", "\n", "h", "i", "\n", "\n">>

X_Vtt ==
    <<"W", "E", "B", "V", "T", "T", "\n", "\n", "0", "0", ":", "0", "0",
      ":", "0", "1", ".", "0", "0", "0", " ", "-", "-", ">", " ", "0", "0",
      ":", "0", "0", ":", "0", "2", ".", "5", "0", "0", "\n", "<", "c",
      ">", "h", "i", "\n", "\n", "7", "\n">>

Contents ==
    {J_TextList, J_IntText, J_NullText, J_NoText, J_NotObjects, J_Empty, J_Object,
     J_Number, J_Broken, X_Plain, X_Srt, X_Vtt}

Recognized == {".txt", ".vtt", ".srt", ".json"}

Suffixes == Recognized \cup {".md"}

InitEx ==
    /\ pc = "extract"
    /\ suffix \in Suffixes
    /\ content \in Contents
    /\ result = None
    /\ IdleOrch
    /\ IdleCodec
    /\ IdleRT

Extract ==
    /\ pc = "extract"
    /\ result' = parse_transcript_file(suffix, content)
    /\ pc' = "extracted"
    /\ UNCHANGED <<suffix, content>>
    /\ UNCHANGED <<orchVars, codecVars, rtVars>>

NextEx == Extract

SpecEx == InitEx /\ [][NextEx]_vars

\* C10: parse_transcript_file never ends in an error for a recognized
\* extension, whatever the content; for any other extension it returns the
\* content with outer whitespace trimmed
C10_ExtractorNeverRaises ==
    pc = "extracted" =>
        /\ suffix \in Recognized => result.ok
        /\ suffix \notin Recognized => result = Ok(Strip(content))

====
